---- MODULE Spec2Model ----
(***************************************************************************)
(* Model of the dashboard's orchestrator controller                        *)
(* (src/pybind/mgr/dashboard/controllers/orchestrator.py).                 *)
(*                                                                         *)
(* Python strings are sequences of one-character strings, so that          *)
(* str.split(',') and int() are computed and not assumed.  None is a       *)
(* one-element sequence holding a marker that is not a character.          *)
(***************************************************************************)
EXTENDS Integers, Sequences, FiniteSets, TLC

\* ---------------------------------------------------------------- bounds
MaxDevLen == 3      \* longest `devices` string of a metadata record
MaxDuration == 3    \* longest requested identify duration, in seconds

\* ------------------------------------------------------- python values
None == <<"None">>

\* bool(x) of a str-or-None value: None and '' are falsy
Truthy(x) == x # None /\ x # <<>>

Chars == {"a", ","}

RECURSIVE StringsOfLen(_)
StringsOfLen(n) ==
    IF n = 0 THEN {<<>>}
    ELSE {<<c>> \o s : c \in Chars, s \in StringsOfLen(n - 1)}

Strings == UNION {StringsOfLen(n) : n \in 0..MaxDevLen}

\* the position of the first ',' in s, 0 when there is none
RECURSIVE FindComma(_, _)
FindComma(s, k) ==
    IF k > Len(s) THEN 0
    ELSE IF s[k] = "," THEN k
    ELSE FindComma(s, k + 1)

\* devices.split(','): '' gives [''], 'a,' gives ['a', '']
RECURSIVE split(_)
split(s) ==
    LET k == FindComma(s, 1) IN
    IF k = 0 THEN <<s>>
    ELSE <<SubSeq(s, 1, k - 1)>> \o split(SubSeq(s, k + 1, Len(s)))

DigitChars == <<"0", "1", "2", "3", "4", "5", "6", "7", "8", "9">>

DigitValue(c) == (CHOOSE k \in 1..10 : DigitChars[k] = c) - 1

\* int(osd_id) of a decimal string
RECURSIVE int_str(_)
int_str(s) ==
    IF Len(s) = 0 THEN 0
    ELSE 10 * int_str(SubSeq(s, 1, Len(s) - 1)) + DigitValue(s[Len(s)])

\* str(n) of a non-negative integer: the keys of the metadata feed
RECURSIVE str_int(_)
str_int(n) ==
    IF n < 10 THEN <<DigitChars[n + 1]>>
    ELSE str_int(n \div 10) \o <<DigitChars[(n % 10) + 1]>>

\* sorted(l) of a list of integers
RECURSIVE sorted(_)
sorted(l) ==
    IF Len(l) = 0 THEN <<>>
    ELSE LET m == CHOOSE k \in 1..Len(l) : \A j \in 1..Len(l) : l[k] <= l[j]
         IN <<l[m]>> \o sorted(SubSeq(l, 1, m - 1) \o SubSeq(l, m + 1, Len(l)))

\* ------------------------------------------------- get_device_osd_map
\* `if not hostname or not devices: continue`
SkipRecord_hostonly(hostname, devices) == ~Truthy(hostname)
SkipRecord(hostname, devices) == ~Truthy(hostname) \/ ~Truthy(devices)

\* the if/else of the inner loop: first owner creates the list, later
\* owners are appended
AddOwner_overwrite(devmap, device, id) ==
    [d \in DOMAIN devmap \cup {device} |->
        IF d = device THEN <<id>> ELSE devmap[d]]
AddOwner(devmap, device, id) ==
    IF device \notin DOMAIN devmap
    THEN [d \in DOMAIN devmap \cup {device} |->
            IF d = device THEN <<id>> ELSE devmap[d]]
    ELSE [devmap EXCEPT ![device] = Append(@, id)]

\* `for device in devices.split(',')`
RECURSIVE AddDevices(_, _, _)
AddDevices(devmap, tokens, id) ==
    IF Len(tokens) = 0 THEN devmap
    ELSE AddDevices(AddOwner(devmap, Head(tokens), id), Tail(tokens), id)

EmptyDict == [x \in {} |-> <<>>]

\* one iteration of `for osd_id, osd_metadata in ....items()`; acc.raised
\* once an iteration has raised (None has no split: AttributeError)
AddRecord(acc, entry) ==
    IF acc.raised \/ SkipRecord(entry.hostname, entry.devices) THEN acc
    ELSE IF entry.devices = None THEN [acc EXCEPT !.raised = TRUE]
    ELSE LET result == acc.result
             h == entry.hostname
             old == IF h \in DOMAIN result THEN result[h] ELSE EmptyDict
             new == AddDevices(old, split(entry.devices), int_str(entry.osd_id))
         IN [acc EXCEPT !.result =
                [x \in DOMAIN result \cup {h} |->
                    IF x = h THEN new ELSE result[x]]]

RECURSIVE BuildMap(_, _)
BuildMap(acc, items) ==
    IF Len(items) = 0 THEN acc
    ELSE BuildMap(AddRecord(acc, Head(items)), Tail(items))

\* .result is the returned dict, .raised whether the call raised instead
get_device_osd_map(items) ==
    BuildMap([raised |-> FALSE, result |-> EmptyDict], items)

\* --------------------------------------------- OrchestratorInventory.list
\* dict.get(key): a missing key gives None
DictGet(dict, key) ==
    IF key \in DOMAIN dict
    THEN [isNone |-> FALSE, value |-> dict[key]]
    ELSE [isNone |-> TRUE, value |-> EmptyDict]

\* `if node_osds:` is false for None and for an empty dict
DictTruthy(got) == ~got.isNone /\ DOMAIN got.value # {}

RECURSIVE ConcatAll(_, _)
ConcatAll(dict, keys) ==
    IF keys = {} THEN <<>>
    ELSE LET k == CHOOSE x \in keys : TRUE
         IN dict[k] \o ConcatAll(dict, keys \ {k})

\* the value assigned to device['osd_ids']
OsdIds_unsorted(node_osds, path) ==
    IF DictTruthy(node_osds)
    THEN IF path \in DOMAIN node_osds.value THEN node_osds.value[path] ELSE <<>>
    ELSE <<>>
OsdIds_nodewide(node_osds, path) ==
    IF DictTruthy(node_osds)
    THEN sorted(ConcatAll(node_osds.value, DOMAIN node_osds.value))
    ELSE <<>>
OsdIds(node_osds, path) ==
    IF DictTruthy(node_osds)
    THEN sorted(IF path \in DOMAIN node_osds.value
                THEN node_osds.value[path] ELSE <<>>)
    ELSE <<>>

AnnotateNode(device_osd_map, node) ==
    LET node_osds == DictGet(device_osd_map, node.name) IN
    [name |-> node.name,
     devices |-> [k \in 1..Len(node.devices) |->
                    [path |-> node.devices[k].path,
                     osd_ids |-> OsdIds(node_osds, node.devices[k].path)]]]

AnnotateNodes(device_osd_map, nodes) ==
    [k \in 1..Len(nodes) |-> AnnotateNode(device_osd_map, nodes[k])]

\* ------------------------------------------------------- identify_device
\* a duration is the rational n/d (d = 1: whole seconds, d = 2: halves)
\* int(duration): truncation toward zero
int_num_ceil(duration) ==
    IF duration.n >= 0 THEN (duration.n + duration.d - 1) \div duration.d
    ELSE -((-duration.n) \div duration.d)
int_num(duration) ==
    IF duration.n >= 0 THEN duration.n \div duration.d
    ELSE -((-duration.n) \div duration.d)

\* len(range(n))
RangeLen_short(n) == IF n > 1 THEN n - 1 ELSE 0
RangeLen(n) == IF n > 0 THEN n ELSE 0

\* round(p / q) for p >= 0, q > 0, ties to the even integer
RoundHalfEven(p, q) ==
    LET f == p \div q
        r == p % q
    IN IF 2 * r < q THEN f
       ELSE IF 2 * r > q THEN f + 1
       ELSE IF f % 2 = 0 THEN f ELSE f + 1

\* int(round(i / float(duration) * 100)), evaluated inside the loop only,
\* where duration >= 1
Percentage_floor(i, duration) == (i * 100 * duration.d) \div duration.n
Percentage(i, duration) == RoundHalfEven(i * 100 * duration.d, duration.n)

\* ------------------------------------------------------------ decorators
\* raise_if_no_orchestrator: the method runs only when orch.available()
GuardPasses_always(avail) == TRUE
GuardPasses(avail) == avail

\* handle_orchestrator_error(component): an error of an orchestrator call
\* leaves the handler as a DashboardException carrying the component
handle_orchestrator_error(component) ==
    [kind |-> "DashboardException", code |-> 0, component |-> component,
     exc |-> "DashboardException", body |-> <<>>]

\* the position identify_device reaches after blink_device_light(.., True):
\* a raised error leaves the method
AfterLightOn_swallow(ok) == "loop"
AfterLightOn(ok) == IF ok THEN "loop" ELSE "idle"

\* --------------------------------------------------------------- inputs
H1 == <<"n", "1">>
H2 == <<"n", "2">>
NodeNames == <<H1, H2>>
HostnameValues == {None, <<>>, H1, H2}
DevicesValues == {None} \cup Strings

\* the keys of the feed: osd.9 and osd.10, whose decimal forms sort the
\* other way round
OsdKeys == {str_int(9), str_int(10)}

Records == [osd_id : OsdKeys, hostname : HostnameValues, devices : DevicesValues]

DistinctKeys(f) ==
    \A j, k \in 1..Len(f) : j # k => f[j].osd_id # f[k].osd_id

\* f is the items() of a metadata dict over these keys, in any order
IsFeed(f) ==
    \E n \in 0..Cardinality(OsdKeys) :
        f \in [1..n -> Records] /\ DistinctKeys(f)

\* {"10": node1 "a,aa", "9": node1 "a"}: a device shared by two OSDs
ExampleFeed ==
    << [osd_id |-> <<"1", "0">>, hostname |-> H1, devices |-> <<"a", ",", "a", "a">>],
       [osd_id |-> <<"9">>, hostname |-> H1, devices |-> <<"a">>] >>

\* the device paths an inventory node reports: every name without a comma
Paths == {s \in Strings : FindComma(s, 1) = 0}

RECURSIVE SetToSeq(_)
SetToSeq(S) ==
    IF S = {} THEN <<>>
    ELSE LET x == CHOOSE y \in S : TRUE IN <<x>> \o SetToSeq(S \ {x})

InventoryNode(name) ==
    [name |-> name,
     devices |-> LET ps == SetToSeq(Paths)
                 IN [k \in 1..Len(ps) |-> [path |-> ps[k]]]]

AllNodes == [k \in 1..Len(NodeNames) |-> InventoryNode(NodeNames[k])]

\* what orch.inventory.list(hosts) answers, with
\* `hosts = [hostname] if hostname else None`: the nodes of the asked
\* hosts, every node when hosts is None
InventoryReply(hostname) ==
    IF Truthy(hostname)
    THEN SelectSeq(AllNodes, LAMBDA nd : nd.name = hostname)
    ELSE AllNodes

Durations ==
    [n : (-1)..MaxDuration, d : {1}] \cup
    {[n |-> m, d |-> 2] : m \in {k \in (-3)..(2 * MaxDuration) : k % 2 # 0}}

\* ---------------------------------------------------------------- state
VARIABLES
    osd_metadata,   \* mgr.get('osd_metadata').items(), in iteration order
    available,      \* what OrchClient.instance().available() answers
    light,          \* the device's indicator light
    pc,             \* the position of the running identify_device task
    i,              \* the loop variable of identify_device
    req,            \* the request being (or last) handled
    events,         \* the calls made while handling req, in order
    task,           \* the task of req: "none", "running", "finished", "failed"
    response,       \* how the handler of req ended
    device_osd_map  \* the local of OrchestratorInventory.list

vars == <<osd_metadata, available, light, pc, i, req, events, task, response,
          device_osd_map>>

NoDuration == [n |-> 0, d |-> 1]
NoRequest == [endpoint |-> "none", hostname |-> None, duration |-> NoDuration,
              available |-> FALSE]
Request(endpoint, hostname, duration) ==
    [endpoint |-> endpoint, hostname |-> hostname, duration |-> duration,
     available |-> available]

Pending == [kind |-> "pending", code |-> 0, component |-> "", exc |-> "",
            body |-> <<>>]
Ok(body) == [kind |-> "ok", code |-> 200, component |-> "", exc |-> "",
             body |-> body]
HTTPError(code) == [kind |-> "HTTPError", code |-> code, component |-> "",
                    exc |-> "HTTPError", body |-> <<>>]
DashboardException(component) ==
    [kind |-> "DashboardException", code |-> 0, component |-> component,
     exc |-> "DashboardException", body |-> <<>>]
\* an exception that leaves the handler as it was raised
Unhandled(exc) == [kind |-> "unhandled", code |-> 0, component |-> "",
                   exc |-> exc, body |-> <<>>]

InitCommon ==
    /\ available \in BOOLEAN
    /\ light = FALSE
    /\ pc = "idle"
    /\ i = 0
    /\ req = NoRequest
    /\ events = <<>>
    /\ task = "none"
    /\ response = Pending
    /\ device_osd_map = EmptyDict

Init ==
    /\ osd_metadata \in {<<>>, ExampleFeed}
    /\ InitCommon

InitInventory ==
    /\ IsFeed(osd_metadata)
    /\ InitCommon
    /\ available

\* the orchestrator backend comes up or goes away
SetAvailable ==
    /\ available' = ~available
    /\ UNCHANGED <<osd_metadata, light, pc, i, req, events, task, response,
                   device_osd_map>>

\* Orchestrator.status: not wrapped by raise_if_no_orchestrator
Status ==
    /\ pc = "idle"
    /\ req' = Request("status", None, NoDuration)
    /\ events' = << <<"status", 0>> >>
    /\ response' = Ok(<<>>)
    /\ task' = "none"
    /\ UNCHANGED <<osd_metadata, available, light, pc, i, device_osd_map>>

\* OrchestratorInventory.list
InventoryList(hostname) ==
    /\ pc = "idle"
    /\ req' = Request("inventory", hostname, NoDuration)
    /\ task' = "none"
    /\ IF ~GuardPasses(available)
       THEN /\ events' = << <<"available", 0>> >>
            /\ response' = HTTPError(503)
            /\ device_osd_map' = EmptyDict
       ELSE /\ events' = << <<"available", 0>>, <<"inventory.list", 0>> >>
            /\ \/ /\ response' = Unhandled("OrchestratorError")
                  /\ device_osd_map' = EmptyDict
               \/ LET got == get_device_osd_map(osd_metadata) IN
                  /\ device_osd_map' = got.result
                  /\ response' =
                        IF got.raised THEN Unhandled("AttributeError")
                        ELSE Ok(AnnotateNodes(got.result,
                                              InventoryReply(hostname)))
    /\ UNCHANGED <<osd_metadata, available, light, pc, i>>

\* OrchestratorService.list
ServiceList(hostname) ==
    /\ pc = "idle"
    /\ req' = Request("service", hostname, NoDuration)
    /\ task' = "none"
    /\ IF ~GuardPasses(available)
       THEN /\ events' = << <<"available", 0>> >>
            /\ response' = HTTPError(503)
       ELSE /\ events' = << <<"available", 0>>, <<"services.list", 0>> >>
            /\ response' \in {Ok(<<>>), Unhandled("OrchestratorError")}
    /\ UNCHANGED <<osd_metadata, available, light, pc, i, device_osd_map>>

\* OrchestratorOsd.create; valid: whether DriveGroupSpec.from_json accepts
\* the payload
OsdCreate(valid) ==
    /\ pc = "idle"
    /\ req' = Request("osd", None, NoDuration)
    /\ task' = "none"
    /\ IF ~GuardPasses(available)
       THEN /\ events' = << <<"available", 0>> >>
            /\ response' = HTTPError(503)
       ELSE IF ~valid
       THEN /\ events' = << <<"available", 0>> >>
            /\ response' = DashboardException("osd")
       ELSE /\ events' = << <<"available", 0>>, <<"osds.create", 0>> >>
            /\ response' \in {Ok(<<>>), Unhandled("OrchestratorError")}
    /\ UNCHANGED <<osd_metadata, available, light, pc, i, device_osd_map>>

\* Orchestrator.identify_device, up to TaskManager...set_progress(0)
IdentifyDevice(hostname, duration) ==
    /\ pc = "idle"
    /\ req' = Request("identify_device", hostname, duration)
    /\ i' = 0
    /\ IF ~GuardPasses(available)
       THEN /\ events' = << <<"available", 0>> >>
            /\ response' = HTTPError(503)
            /\ task' = "none"
            /\ pc' = "idle"
       ELSE /\ events' = << <<"available", 0>>, <<"set_progress", 0>> >>
            /\ response' = Pending
            /\ task' = "running"
            /\ pc' = "light_on"
    /\ UNCHANGED <<osd_metadata, available, light, device_osd_map>>

\* orch.blink_device_light(hostname, device, 'ident', True)
LightOn ==
    /\ pc = "light_on"
    /\ events' = Append(events, <<"blink_device_light", 1>>)
    /\ \E ok \in BOOLEAN :
          /\ pc' = AfterLightOn(ok)
          /\ IF ok
             THEN /\ light' = TRUE
                  /\ UNCHANGED <<task, response>>
             ELSE /\ light' = light
                  /\ task' = "failed"
                  /\ response' = handle_orchestrator_error("osd")
    /\ UNCHANGED <<osd_metadata, available, i, req, device_osd_map>>

\* one iteration of `for i in range(int(duration))`
Tick ==
    /\ pc = "loop"
    /\ i < RangeLen(int_num(req.duration))
    /\ events' = events \o << <<"set_progress", Percentage(i, req.duration)>>,
                              <<"sleep", 1>> >>
    /\ i' = i + 1
    /\ UNCHANGED <<osd_metadata, available, light, pc, req, task, response,
                   device_osd_map>>

\* orch.blink_device_light(hostname, device, 'ident', False)
LightOff ==
    /\ pc = "loop"
    /\ ~(i < RangeLen(int_num(req.duration)))
    /\ events' = Append(events, <<"blink_device_light", 0>>)
    /\ \E ok \in BOOLEAN :
          IF ok
          THEN /\ light' = FALSE
               /\ pc' = "finish"
               /\ UNCHANGED <<task, response>>
          ELSE /\ light' = light
               /\ pc' = "idle"
               /\ task' = "failed"
               /\ response' = handle_orchestrator_error("osd")
    /\ UNCHANGED <<osd_metadata, available, i, req, device_osd_map>>

\* TaskManager.current_task().set_progress(100) and the return
Finish ==
    /\ pc = "finish"
    /\ events' = Append(events, <<"set_progress", 100>>)
    /\ pc' = "idle"
    /\ task' = "finished"
    /\ response' = Ok(<<>>)
    /\ UNCHANGED <<osd_metadata, available, light, i, req, device_osd_map>>

Next ==
    \/ SetAvailable
    \/ Status
    \/ \E hostname \in HostnameValues : InventoryList(hostname)
    \/ \E hostname \in HostnameValues : ServiceList(hostname)
    \/ \E valid \in BOOLEAN : OsdCreate(valid)
    \/ \E hostname \in {H1}, duration \in Durations :
          IdentifyDevice(hostname, duration)
    \/ LightOn
    \/ Tick
    \/ LightOff
    \/ Finish

Spec == Init /\ [][Next]_vars

NextInventory == \E hostname \in {None, H2} : InventoryList(hostname)

SpecInventory == InitInventory /\ [][NextInventory]_vars

\* ------------------------------------------- properties: the inventory
\* OrchestratorInventory.list ran to its return statement
ListRan == req.endpoint = "inventory" /\ response.kind = "ok"

\* the token of s that starts at position a ends at position b
TokenAt(s, a, b) ==
    /\ a = 1 \/ s[a - 1] = ","
    /\ b = Len(s) \/ s[b + 1] = ","
    /\ \A k \in a..b : s[k] # ","

\* how many of the comma-separated names of a devices string are dev
Occurrences(devices, dev) ==
    IF ~Truthy(devices) THEN 0
    ELSE Cardinality({a \in 1..(Len(devices) + 1) :
            \E b \in (a - 1)..Len(devices) :
                TokenAt(devices, a, b) /\ SubSeq(devices, a, b) = dev})

\* the integer a key of the feed is the decimal form of
IdOf(key) == CHOOSE n \in 0..20 : str_int(n) = key

Entries == {osd_metadata[k] : k \in 1..Len(osd_metadata)}

\* the records that name hostname h and list the device dev
OwnerEntries(h, dev) ==
    {e \in Entries : e.hostname = h /\ Occurrences(e.devices, dev) > 0}

Elems(l) == {l[k] : k \in 1..Len(l)}
Count(l, x) == Cardinality({k \in 1..Len(l) : l[k] = x})
IsSorted(l) == \A j, k \in 1..Len(l) : j < k => l[j] <= l[k]
StrictlyAscending(l) == \A j, k \in 1..Len(l) : j < k => l[j] < l[k]

InMap(h, dev) ==
    h \in DOMAIN device_osd_map /\ dev \in DOMAIN device_osd_map[h]

\* P(name, device) for every device of every node of the answer
ForAllDevices(P(_, _)) ==
    \A n \in 1..Len(response.body) :
        \A k \in 1..Len(response.body[n].devices) :
            P(response.body[n].name, response.body[n].devices[k])

ExistsDevice(P(_, _)) ==
    \E n \in 1..Len(response.body) :
        \E k \in 1..Len(response.body[n].devices) :
            P(response.body[n].name, response.body[n].devices[k])

\* C1: after OrchestratorInventory.list, every device whose (node name,
\* path) pair is in the ownership map has an osd_ids list that is sorted
\* ascending and whose elements are exactly the identifiers of the records
\* that name the hostname and list the device.
C1_SortedExactOwners ==
    ListRan =>
        ForAllDevices(LAMBDA name, dv :
            InMap(name, dv.path) =>
                /\ IsSorted(dv.osd_ids)
                /\ Elems(dv.osd_ids) =
                      {IdOf(e.osd_id) : e \in OwnerEntries(name, dv.path)})

\* a device shared by two OSDs that the feed iterates in descending order
C1_Witness ==
    /\ ListRan
    /\ Len(osd_metadata) >= 2
    /\ IdOf(osd_metadata[1].osd_id) > IdOf(osd_metadata[2].osd_id)
    /\ ExistsDevice(LAMBDA name, dv :
          /\ InMap(name, dv.path)
          /\ Len(dv.osd_ids) = 2
          /\ dv.osd_ids[1] < dv.osd_ids[2])

Complete(e) == Truthy(e.hostname) /\ Truthy(e.devices)

\* C2: a record without hostname or without devices (absent or empty)
\* adds no hostname key, no device key and no identifier to the map of
\* get_device_osd_map, and makes it raise nothing: the map is the one of
\* the feed without these records.
C2_IncompleteRecordsIgnored ==
    (req.endpoint = "inventory" /\ response.exc # "OrchestratorError"
        /\ response.kind # "HTTPError") =>
        /\ response.kind = "ok"
        /\ device_osd_map =
              get_device_osd_map(SelectSeq(osd_metadata, Complete)).result
        /\ \A h \in DOMAIN device_osd_map :
              /\ \E e \in Entries : Complete(e) /\ e.hostname = h
              /\ \A dev \in DOMAIN device_osd_map[h] :
                    /\ \E e \in Entries : Complete(e) /\ e.hostname = h
                                            /\ Occurrences(e.devices, dev) > 0
                    /\ \A x \in Elems(device_osd_map[h][dev]) :
                          \E e \in Entries : Complete(e) /\ IdOf(e.osd_id) = x

\* a feed with a record that has a hostname but empty or absent devices,
\* next to a complete record of the same host
C2_Witness ==
    /\ ListRan
    /\ \E e1, e2 \in Entries :
          /\ Truthy(e1.hostname) /\ ~Truthy(e1.devices)
          /\ Complete(e2) /\ e2.hostname = e1.hostname
    /\ DOMAIN device_osd_map # {}

\* C3: every device of every returned node has an osd_ids field; it is []
\* for the devices of a node whose name is no hostname of the map, and []
\* for a path never recorded under a hostname of the map.
C3_DefaultsToEmpty ==
    ListRan =>
        /\ Len(response.body) = Len(InventoryReply(req.hostname))
        /\ ForAllDevices(LAMBDA name, dv :
              /\ "osd_ids" \in DOMAIN dv
              /\ name \notin DOMAIN device_osd_map => dv.osd_ids = <<>>
              /\ (name \in DOMAIN device_osd_map /\ ~InMap(name, dv.path))
                    => dv.osd_ids = <<>>)

\* an answer with a node outside the map and, on a node of the map, a path
\* that no record lists
C3_Witness ==
    /\ ListRan
    /\ ExistsDevice(LAMBDA name, dv : name \notin DOMAIN device_osd_map)
    /\ ExistsDevice(LAMBDA name, dv :
          name \in DOMAIN device_osd_map /\ ~InMap(name, dv.path))
    /\ ExistsDevice(LAMBDA name, dv : InMap(name, dv.path))

\* C7 as stated: the owners of every (hostname, device) pair are sorted
\* ascending without a duplicate, also when a record repeats a device name.
C7_Original ==
    ListRan =>
        ForAllDevices(LAMBDA name, dv : StrictlyAscending(dv.osd_ids))

\* C7 amended: the osd_ids list of every (hostname, device) pair is sorted
\* ascending and holds an identifier once per occurrence of the device
\* name in that OSD's devices string, so it is free of duplicates when no
\* owning record repeats the name.
C7_SortedOncePerToken ==
    ListRan =>
        ForAllDevices(LAMBDA name, dv :
            /\ IsSorted(dv.osd_ids)
            /\ \A e \in Entries :
                  Count(dv.osd_ids, IdOf(e.osd_id)) =
                     IF Complete(e) /\ e.hostname = name
                     THEN Occurrences(e.devices, dv.path) ELSE 0
            /\ (\A e \in Entries : Occurrences(e.devices, dv.path) <= 1)
                  => StrictlyAscending(dv.osd_ids))

\* a record that repeats a device name gives that device its id twice
C7_Witness ==
    /\ ListRan
    /\ ExistsDevice(LAMBDA name, dv :
          /\ Len(dv.osd_ids) >= 2
          /\ dv.osd_ids[1] = dv.osd_ids[2]
          /\ \E e \in Entries : Complete(e) /\ e.hostname = name
                /\ Occurrences(e.devices, dv.path) >= 2)

\* the task thread is never stopped: each step of identify_device that can
\* be taken is taken
FairSpec ==
    /\ Spec
    /\ WF_vars(LightOn) /\ WF_vars(Tick) /\ WF_vars(LightOff) /\ WF_vars(Finish)

\* ------------------------------------------- properties: the endpoints
EventsOf(op) == SelectSeq(events, LAMBDA e : e[1] = op)

\* the arguments of the set_progress calls of the request, in order
ProgressValues ==
    LET sp == EventsOf("set_progress") IN [k \in 1..Len(sp) |-> sp[k][2]]

NumSleeps == Len(EventsOf("sleep"))

OrchestratorMethods ==
    {"status", "blink_device_light", "inventory.list", "services.list",
     "osds.create"}

OrchestratorCalls == SelectSeq(events, LAMBDA e : e[1] \in OrchestratorMethods)

Identify == req.endpoint = "identify_device"
IdentifyDone == Identify /\ task = "finished"
Whole(duration) == duration.d = 1 /\ duration.n >= 1

IdentifyTrace(percentages) ==
    << <<"available", 0>>, <<"set_progress", 0>>, <<"blink_device_light", 1>>,
       <<"set_progress", percentages[1]>>, <<"sleep", 1>>,
       <<"set_progress", percentages[2]>>, <<"sleep", 1>>,
       <<"set_progress", percentages[3]>>, <<"sleep", 1>>,
       <<"blink_device_light", 0>>, <<"set_progress", 100>> >>

\* C4 as stated: with duration=3 the whole operation sends exactly 4
\* progress updates and pauses 3 times (N+1 updates and N pauses for a
\* whole N >= 1).
C4_Original ==
    (IdentifyDone /\ Whole(req.duration)) =>
        /\ Len(ProgressValues) = req.duration.n + 1
        /\ NumSleeps = req.duration.n

\* C4 amended: with duration=3 the operation sends an initial 0% update,
\* issues light-on, sends 0%, 33%, 67% each followed by a one-second pause,
\* then issues light-off and sends 100%: 5 updates and 3 pauses (N+2
\* updates and N pauses for a whole N >= 1).
C4_UpdatesAndPauses ==
    (IdentifyDone /\ Whole(req.duration)) =>
        /\ Len(ProgressValues) = req.duration.n + 2
        /\ NumSleeps = req.duration.n
        /\ req.duration.n = 3 => events = IdentifyTrace(<<0, 33, 67>>)

C4_Witness ==
    /\ IdentifyDone
    /\ req.duration = [n |-> 3, d |-> 1]
    /\ NumSleeps = 3

GuardedEndpoints == {"identify_device", "inventory", "service", "osd"}

Refused503 ==
    /\ response = HTTPError(503)
    /\ Len(OrchestratorCalls) = 0
    /\ task = "none"
    /\ Len(ProgressValues) = 0
    /\ pc = "idle"

\* C5 as stated: a request to status, identify_device, inventory list,
\* service list or osd create made while the orchestrator is unavailable
\* ends with 503, calls no orchestrator method, starts no task and reports
\* no progress.
C5_Original ==
    (req.endpoint \in GuardedEndpoints \cup {"status"} /\ ~req.available)
        => Refused503

\* C5 amended: the same for identify_device, inventory list, service list
\* and osd create; status is not guarded.
C5_GuardedEndpointsRefuse ==
    (req.endpoint \in GuardedEndpoints /\ ~req.available) => Refused503

C5_Witness ==
    /\ Identify
    /\ ~req.available
    /\ response.code = 503
    /\ events = << <<"available", 0>> >>

\* C6: on identify_device, inventory list, service list and osd create the
\* failure of a remote orchestrator call leaves the handler as a
\* DashboardException carrying a component, never as the raw error.
C6_RemoteFailuresTranslated ==
    req.endpoint \in GuardedEndpoints =>
        /\ response.exc # "OrchestratorError"
        /\ response.kind = "DashboardException" => response.component # ""

\* max(0, trunc(duration)), not by way of int()
ExpectedPauses(duration) ==
    IF duration.n <= 0 THEN 0
    ELSE CHOOSE k \in 0..duration.n :
            k * duration.d <= duration.n /\ (k + 1) * duration.d > duration.n

Positions(ev) == {k \in 1..Len(events) : events[k] = ev}

CompletedCleanly ==
    IdentifyDone =>
        /\ NumSleeps = ExpectedPauses(req.duration)
        /\ Cardinality(Positions(<<"blink_device_light", 1>>)) = 1
        /\ Cardinality(Positions(<<"blink_device_light", 0>>)) = 1
        /\ \A on \in Positions(<<"blink_device_light", 1>>),
              off \in Positions(<<"blink_device_light", 0>>),
              p \in Positions(<<"sleep", 1>>) : on < p /\ p < off
        /\ events[Len(events)] = <<"set_progress", 100>>
        /\ ~light

\* C8: for every duration (0, negative and fractional ones included) an
\* identify_device whose orchestrator calls succeed terminates, after
\* exactly max(0, trunc(duration)) pauses, with one light-on before the
\* first pause, one light-off after the last, 100% as its last update and
\* the light off.
C8_TerminatesLightOff ==
    /\ []CompletedCleanly
    /\ (task = "running") ~> (task \in {"finished", "failed"})

C8_Witness ==
    /\ IdentifyDone
    /\ req.duration = [n |-> 1, d |-> 2]
    /\ NumSleeps = 0
    /\ ~light

LastEvent == events[Len(events)]
LightOnFailed ==
    Identify /\ task = "failed" /\ LastEvent = <<"blink_device_light", 1>>
LightOffFailed ==
    Identify /\ task = "failed" /\ LastEvent = <<"blink_device_light", 0>>

NothingAfterLightOnFailure ==
    LightOnFailed =>
        /\ pc = "idle"
        /\ NumSleeps = 0
        /\ Positions(<<"blink_device_light", 0>>) = {}
        /\ ProgressValues = <<0>>

\* C9 as stated: identify_device fails atomically at light-on or light-off:
\* after a failed light-on no pause, light-off or 100% update follows, and a
\* failed light-off leaves the light not switched on and the task not
\* finished.
C9_Original ==
    /\ NothingAfterLightOnFailure
    /\ LightOffFailed => (~light /\ task # "finished")

\* C9 amended: after a failed light-on no pause, light-off or 100% update
\* follows; after a failed light-off the 100% update is not sent and the
\* task ends failed with the osd error, but the light that the first call
\* switched on stays on.
C9_FailureStopsTheOperation ==
    /\ NothingAfterLightOnFailure
    /\ (Identify /\ task = "failed") =>
          /\ pc = "idle"
          /\ LightOnFailed \/ LightOffFailed
          /\ response = DashboardException("osd")
    /\ LightOffFailed =>
          /\ light
          /\ NumSleeps = ExpectedPauses(req.duration)
          /\ Len(ProgressValues) = 1 + NumSleeps
          /\ Cardinality(Positions(<<"blink_device_light", 0>>)) = 1

C9_Witness ==
    /\ LightOffFailed
    /\ NumSleeps = 2
    /\ light

Abs(x) == IF x < 0 THEN -x ELSE x

\* C10: for a whole duration N >= 1 every value sent lies in 0..100, the
\* update of tick i is the integer nearest to 100 * i / N, the values sent
\* never decrease, and the last one of a completed run is 100.
C10_ProgressValues ==
    (Identify /\ Whole(req.duration)) =>
        LET pv == ProgressValues
            N == req.duration.n
        IN /\ \A k \in 1..Len(pv) : pv[k] \in 0..100
           /\ \A t \in 0..(N - 1) :
                 (t < i /\ t + 2 <= Len(pv)) =>
                    2 * Abs(100 * t - N * pv[t + 2]) <= N
           /\ \A j, k \in 1..Len(pv) : j < k => pv[j] <= pv[k]
           /\ task = "finished" => pv[Len(pv)] = 100
           /\ task = "running" => Len(pv) = 1 + i

C10_Witness ==
    /\ Identify
    /\ task = "running"
    /\ req.duration = [n |-> 3, d |-> 1]
    /\ ProgressValues = <<0, 0, 33, 67>>

====
